---- MODULE Spec2Model ----
(***************************************************************************)
(* Model of the Backpack connector's request signing (ts/src/backpack.ts)  *)
(* and of its stream client (ts/src/pro/backpack.ts): order book merge,    *)
(* order cache and the waiters of the watch calls.                         *)
(*                                                                         *)
(* Strings that are built by concatenation (signature payloads, query      *)
(* strings) are sequences of atoms: an atom is either a word without any   *)
(* delimiter or one of the delimiters "&", "=", "[", "]" and their         *)
(* percent-encoded forms.  Prices are in cents, quantities in thousandths. *)
(***************************************************************************)
EXTENDS Integers, Sequences, FiniteSets, TLC

VARIABLES
    inbox,        \* the frame the transport has delivered and handleMessage has not yet handled
    orderbooks,   \* this.orderbooks: symbol -> order book (pro/backpack.ts:305-311)
    orders,       \* this.orders: <<>> while undefined, else <<cache>> (pro/backpack.ts:451-455)
    futures,      \* client.futures: message hashes with a pending watch call
    resolved,     \* message hash -> value handed to the waiters released by the last step
    thrown,       \* the error the last step raised, "" if none
    lastPair,     \* history: symbol -> side -> price -> quantity of the most recent pair
    stale,        \* history: symbols whose book is held from before the last reconnect
    request,      \* the inputs of the last sign call
    response,     \* what the last sign call returned
    tickers,      \* this.tickers: symbol -> ticker (pro/backpack.ts:240)
    trades,       \* this.trades: symbol -> cache of trades (pro/backpack.ts:273-280)
    ohlcvs,       \* this.ohlcvs: symbol -> interval -> cache of candles (pro/backpack.ts:353-360)
    positions,    \* this.positions: <<>> while undefined, else <<cache>> (pro/backpack.ts:557-561)
    clock,        \* this.milliseconds ()
    outbox,       \* subscribe frames handed to this.watch and not yet on the wire
    sent,         \* subscribe frames on the wire, each with the time it was sent at
    options,      \* this.options: the limits of the caches, NoValue where not set
    handled       \* history: <<>> or the last frame handleMessage returned from

vars == <<inbox, orderbooks, orders, futures, resolved, thrown, lastPair, stale, request,
          response, tickers, trades, ohlcvs, positions, clock, outbox, sent, options,
          handled>>

cacheVars == <<tickers, trades, ohlcvs, positions, options, handled>>
subscribeVars == <<clock, outbox, sent>>

----------------------------------------------------------------------------
(* Bounds and input sets *)

MaxDeltas == 2        \* pairs carried by one depth message (asks plus bids)
MaxUpdateId == 2      \* update ids run over 1..MaxUpdateId

NoValue == -1         \* JavaScript undefined for an integer field

Symbols == {"SOL/USDC", "BTC/USDC"}
Markets == {"SOL_USDC", "BTC_USDC"}
DepthMarkets == {"SOL_USDC"}

Prices == {1867, 1870}
Quantities == {0, 832, 1500}
MicroTimes == {1999, 2000}
UpdateIds == 1..MaxUpdateId
Sides == {"asks", "bids"}

EmptyMap == [x \in {} |-> x]

Pairs == Prices \X Quantities

DeltaLists == UNION {[1..k -> Pairs] : k \in 0..MaxDeltas}

DepthData ==
    {d \in [s : DepthMarkets, a : DeltaLists, b : DeltaLists,
            U : UpdateIds, u : UpdateIds, T : MicroTimes] :
        /\ Len(d.a) + Len(d.b) <= MaxDeltas
        /\ d.U <= d.u}

DepthMessages == {[stream |-> <<"depth", d.s>>, data |-> d] : d \in DepthData}

\* the depth messages that announce a single update id and keep asks at the
\* upper price and bids at the lower one
BookDepthMessages ==
    {m \in DepthMessages :
        /\ m.data.U = m.data.u
        /\ \A i \in 1..Len(m.data.a) : m.data.a[i][1] = 1870
        /\ \A i \in 1..Len(m.data.b) : m.data.b[i][1] = 1867}

\* the depth messages of one instant and one update id, any price on any side
PlainDepthMessages ==
    {m \in DepthMessages : m.data.U = 1 /\ m.data.u = 1 /\ m.data.T = 1999}

OrderMarkets == {"SOL_USDC"}

MaxOrderId == 2       \* order ids run over 1..MaxOrderId

OrderStatuses == {"New", "Filled"}

\* fee: the update carries the fee fields n and N
OrderData == [s : OrderMarkets, i : 1..MaxOrderId, X : OrderStatuses, fee : BOOLEAN]

OrderMessages ==
    {[stream |-> st, data |-> d] : st \in {<<"account", "orderUpdate">>}, d \in OrderData}
    \cup {[stream |-> <<"account", "orderUpdate", d.s>>, data |-> d] : d \in OrderData}

----------------------------------------------------------------------------
(* Helpers of the base class *)

safeMarket(marketId) ==
    [id |-> marketId,
     symbol |-> CASE marketId = "SOL_USDC" -> "SOL/USDC"
                  [] marketId = "BTC_USDC" -> "BTC/USDC"
                  [] OTHER -> marketId]

safeIntegerProduct(value, divisor) == value \div divisor

\* bookside.store (price, size): a zero size deletes the level, any other sets it
handleDelta(bookside, delta) ==
    IF delta[2] = 0
    THEN [p \in (DOMAIN bookside) \ {delta[1]} |-> bookside[p]]
    ELSE [p \in (DOMAIN bookside) \cup {delta[1]} |->
             IF p = delta[1] THEN delta[2] ELSE bookside[p]]

RECURSIVE handleDeltas(_, _)
handleDeltas(bookside, deltas) ==
    IF deltas = <<>> THEN bookside
    ELSE handleDeltas(handleDelta(bookside, Head(deltas)), Tail(deltas))

\* this.orderBook ({})
orderBook(symbol) ==
    [symbol |-> symbol, asks |-> EmptyMap, bids |-> EmptyMap,
     timestamp |-> NoValue, nonce |-> NoValue]

\* client.resolve (result, messageHash): releases the waiters of messageHash, if any
resolve(this, result, messageHash) ==
    IF messageHash \in this.futures
    THEN [this EXCEPT !.futures = @ \ {messageHash},
                      !.resolved = [h \in (DOMAIN @) \cup {messageHash} |->
                                       IF h = messageHash THEN result ELSE @[h]]]
    ELSE this

----------------------------------------------------------------------------
(* Requests handed to sign *)

MaxBatch == 2         \* objects in a batch (an array passed as params)

DefaultRecvWindow == 5000

ParamKeys == <<"orderId", "symbol">>          \* in lexicographic order
ParamValues == {<<"SOL_USDC">>, <<"a", "&", "b", "=", "c">>}
MilliTimes == {1700000000, 1700000001}
RecvWindows == {DefaultRecvWindow, 10000}
Methods == {"GET", "POST", "PUT", "DELETE"}
Apis == {"public", "private"}
Paths == {<<"account">>, <<"order">>, <<"orders">>, <<"borrowLend">>,
          <<"depositAddress">>, <<"orders", "/", "{orderId}">>}

KeySet == {ParamKeys[i] : i \in 1..Len(ParamKeys)}

\* an object is the sequence of its <<key, value>> entries in insertion order
Objects ==
    {o \in UNION {[1..k -> KeySet \X ParamValues] : k \in 0..Len(ParamKeys)} :
        \A i, j \in 1..Len(o) : i # j => o[i][1] # o[j][1]}

Arrays == UNION {[1..k -> Objects] : k \in 0..MaxBatch}

\* params: an object (its entries in value) or an array of objects (in items)
Object(entries) == [kind |-> "object", value |-> entries, items |-> <<>>]
Array(objects) == [kind |-> "array", value |-> <<>>, items |-> objects]

Params == {Object(o) : o \in Objects} \cup {Array(a) : a \in Arrays}

\* credentials: the API key and the secret are both set, or not
Requests == [api : Apis, method : Methods, path : Paths, params : Params,
             now : MilliTimes, recvWindow : RecvWindows, credentials : BOOLEAN]

----------------------------------------------------------------------------
(* Helpers of the base class used by sign *)

RECURSIVE Join(_, _)
Join(parts, separator) ==
    IF parts = <<>> THEN <<>>
    ELSE IF Len(parts) = 1 THEN parts[1]
    ELSE parts[1] \o separator \o Join(Tail(parts), separator)

HasKey(object, key) == \E i \in 1..Len(object) : object[i][1] = key
ValueOf(object, key) == object[CHOOSE i \in 1..Len(object) : object[i][1] = key][2]

\* the object with its entries in lexicographic order of the keys
keysortObject(object) ==
    LET present == SelectSeq(ParamKeys, LAMBDA k : HasKey(object, k))
    IN  [i \in 1..Len(present) |-> <<present[i], ValueOf(object, present[i])>>]

\* keysort of an array: an object keyed by the indices "0", "1", ...
keysort(query) ==
    IF query.kind = "array"
    THEN [query EXCEPT !.kind = "indexed"]
    ELSE Object(keysortObject(query.value))

encodeURIComponent(text) ==
    [i \in 1..Len(text) |-> CASE text[i] = "&" -> "%26"
                              [] text[i] = "=" -> "%3D"
                              [] text[i] = "/" -> "%2F"
                              [] OTHER -> text[i]]

urlencodeObject(object) ==
    Join([i \in 1..Len(object) |->
             <<object[i][1], "=">> \o encodeURIComponent(object[i][2])], <<"&">>)

\* qs.stringify: key=value&..., a nested entry as index[key]=value, brackets encoded
urlencode(query) ==
    IF query.kind = "indexed"
    THEN Join(SelectSeq(
             [n \in 1..Len(query.items) |->
                 Join([i \in 1..Len(query.items[n]) |->
                          <<ToString(n - 1), "%5B", query.items[n][i][1], "%5D", "=">>
                          \o encodeURIComponent(query.items[n][i][2])], <<"&">>)],
             LAMBDA part : part # <<>>), <<"&">>)
    ELSE urlencodeObject(query.value)

\* the names between braces in a path
extractParams(path) ==
    {k \in KeySet : \E i \in 1..Len(path) : path[i] = "{" \o k \o "}"}

omit(params, keys) ==
    IF params.kind = "array" THEN params
    ELSE [params EXCEPT !.value = SelectSeq(@, LAMBDA entry : entry[1] \notin keys)]

\* Object.keys (query).length
KeyCount(query) == IF query.kind = "array" THEN Len(query.items) ELSE Len(query.value)

ArrayIsArray(query) == query.kind = "array"

----------------------------------------------------------------------------
(* ts/src/backpack.ts *)

instructionTypes ==
    {<<"GET", <<"account">>, "accountQuery">>,
     <<"GET", <<"capital">>, "balanceQuery">>,
     <<"GET", <<"capital", "/", "collateral">>, "collateralQuery">>,
     <<"GET", <<"orders">>, "orderQueryAll">>,
     <<"GET", <<"history", "/", "orders">>, "orderHistoryQueryAll">>,
     <<"GET", <<"order">>, "orderQuery">>,
     <<"GET", <<"fills">>, "fillHistoryQueryAll">>,
     <<"GET", <<"positions">>, "positionQuery">>,
     <<"GET", <<"capital", "/", "deposits">>, "depositQueryAll">>,
     <<"GET", <<"capital", "/", "withdrawals">>, "withdrawalQueryAll">>,
     <<"GET", <<"position">>, "positionQuery">>,
     <<"GET", <<"history", "/", "funding">>, "fundingHistoryQueryAll">>,
     <<"GET", <<"history", "/", "interest">>, "interestHistoryQueryAll">>,
     <<"GET", <<"history", "/", "pnl">>, "pnlHistoryQueryAll">>,
     <<"GET", <<"history", "/", "settlement">>, "settlementHistoryQueryAll">>,
     <<"GET", <<"capital", "/", "deposit", "/", "address">>, "depositAddressQuery">>,
     <<"POST", <<"orders">>, "orderExecute">>,
     <<"POST", <<"borrowLend">>, "borrowLendExecute">>,
     <<"POST", <<"capital", "/", "withdraw">>, "withdraw">>,
     <<"DELETE", <<"order">>, "orderCancel">>,
     <<"DELETE", <<"orders">>, "orderCancelAll">>}

\* path.replace (/{[^}]+}/g, '{orderId}')
IsPlaceholder(segment) == \E k \in KeySet : segment = "{" \o k \o "}"

cleanPath(path) ==
    [i \in 1..Len(path) |-> IF IsPlaceholder(path[i]) THEN "{orderId}" ELSE path[i]]

Mapped(method, path) ==
    \E entry \in instructionTypes : entry[1] = method /\ entry[2] = cleanPath(path)

getInstructionType_default(path, method) ==
    IF Mapped(method, path)
    THEN [thrown |-> "",
          instruction |-> (CHOOSE entry \in instructionTypes :
                              entry[1] = method /\ entry[2] = cleanPath(path))[3]]
    ELSE [thrown |-> "", instruction |-> ""]

getInstructionType(path, method) ==
    IF Mapped(method, path)
    THEN [thrown |-> "",
          instruction |-> (CHOOSE entry \in instructionTypes :
                              entry[1] = method /\ entry[2] = cleanPath(path))[3]]
    ELSE [thrown |-> "NotSupported"]

signMessageWithEd25519(message) == <<"ed25519", message>>

QueryString_unsorted(method, query, instruction) ==
    IF method = "GET" \/ method = "DELETE"
    THEN IF KeyCount(query) > 0 THEN urlencode(query) ELSE <<>>
    ELSE IF ArrayIsArray(query)
         THEN Join([i \in 1..Len(query.items) |->
                       <<"instruction", "=", instruction, "&">>
                       \o urlencode(Object(query.items[i]))],
                   <<"&">>)
         ELSE IF KeyCount(query) > 0 THEN urlencode(query) ELSE <<>>

\* the query string that is signed, lines 836-870
QueryString(method, query, instruction) ==
    IF method = "GET" \/ method = "DELETE"
    THEN IF KeyCount(query) > 0 THEN urlencode(keysort(query)) ELSE <<>>
    ELSE IF ArrayIsArray(query)
         THEN Join([i \in 1..Len(query.items) |->
                       <<"instruction", "=", instruction, "&">>
                       \o urlencode(keysort(Object(query.items[i])))],
                   <<"&">>)
         ELSE IF KeyCount(query) > 0 THEN urlencode(keysort(query)) ELSE <<>>

SignaturePayload_prefixAlways(query, queryString, instruction, timestamp, window) ==
    <<"instruction", "=", instruction>>
    \o (IF queryString # <<>> THEN <<"&">> \o queryString ELSE <<>>)
    \o <<"&", "timestamp", "=", ToString(timestamp)>>
    \o <<"&", "window", "=", ToString(window)>>

\* the payload that is signed, lines 871-882
SignaturePayload(query, queryString, instruction, timestamp, window) ==
    (IF ArrayIsArray(query)
     THEN queryString
     ELSE <<"instruction", "=", instruction>>
          \o (IF queryString # <<>> THEN <<"&">> \o queryString ELSE <<>>))
    \o <<"&", "timestamp", "=", ToString(timestamp)>>
    \o <<"&", "window", "=", ToString(window)>>

\* parseInt (this.safeString (this.options, 'recvWindow', '5000'))
window(r) == IF r.recvWindow = NoValue THEN DefaultRecvWindow ELSE r.recvWindow

\* this.urls['api'][api], the same for the public and the private api
ApiUrl == "https://api.backpack.exchange/api/v1"

\* implodeParams: each {key} of the path is replaced by the value of key
implodeParams(path, params) ==
    Join([i \in 1..Len(path) |->
             IF /\ params.kind = "object"
                /\ \E k \in KeySet : path[i] = "{" \o k \o "}" /\ HasKey(params.value, k)
             THEN ValueOf(params.value,
                          CHOOSE k \in KeySet : path[i] = "{" \o k \o "}")
             ELSE <<path[i]>>], <<>>)

jsonObject(object) ==
    <<"{">>
    \o Join([i \in 1..Len(object) |->
                <<"\"", object[i][1], "\"", ":", "\"">> \o object[i][2] \o <<"\"">>],
            <<",">>)
    \o <<"}">>

\* this.json: the entries in insertion order, the values unencoded
json(query) ==
    IF query.kind = "array"
    THEN <<"[">>
         \o Join([n \in 1..Len(query.items) |-> jsonObject(query.items[n])], <<",">>)
         \o <<"]">>
    ELSE jsonObject(query.value)

\* the url of the request, lines 822-827 and 836-843
Url(r, query, queryString) ==
    <<ApiUrl, "/">> \o implodeParams(r.path, r.params)
    \o (IF r.api = "public"
        THEN IF KeyCount(query) > 0 THEN <<"?">> \o urlencode(query) ELSE <<>>
        ELSE IF r.method = "GET" /\ KeyCount(query) > 0
             THEN <<"?">> \o queryString ELSE <<>>)

\* the body of the request, <<>> if it has none, lines 844-869
Body(r, query) ==
    IF r.method = "GET" THEN <<>>
    ELSE IF r.method = "DELETE"
    THEN IF KeyCount(query) > 0 THEN json(query) ELSE <<>>
    ELSE IF ArrayIsArray(query) \/ KeyCount(query) > 0 THEN json(query) ELSE <<>>

sign_defaultWindow(r) ==
    LET query == omit(r.params, extractParams(r.path))
        resolved_ == getInstructionType(r.path, r.method)
        instruction == resolved_.instruction
        queryString == QueryString(r.method, query, instruction)
        payload == SignaturePayload(query, queryString, instruction, r.now,
                                    DefaultRecvWindow)
    IN  IF r.api = "public"
        THEN [thrown |-> "", signed |-> FALSE,
              url |-> Url(r, query, <<>>), body |-> <<>>]
        ELSE IF ~r.credentials
        THEN [thrown |-> "AuthenticationError"]
        ELSE IF resolved_.thrown # ""
        THEN [thrown |-> resolved_.thrown]
        ELSE [thrown |-> "", signed |-> TRUE,
              instruction |-> instruction,
              query |-> query,
              payload |-> payload,
              url |-> Url(r, query, queryString),
              body |-> Body(r, query),
              headers |-> [timestamp |-> ToString(r.now),
                           window |-> ToString(r.recvWindow),
                           apiKey |-> "apiKey",
                           signature |-> signMessageWithEd25519(payload)]]

sign_secondClock(r) ==
    LET query == omit(r.params, extractParams(r.path))
        resolved_ == getInstructionType(r.path, r.method)
        instruction == resolved_.instruction
        queryString == QueryString(r.method, query, instruction)
        payload == SignaturePayload(query, queryString, instruction, r.now, window(r))
    IN  IF r.api = "public"
        THEN [thrown |-> "", signed |-> FALSE,
              url |-> Url(r, query, <<>>), body |-> <<>>]
        ELSE IF ~r.credentials
        THEN [thrown |-> "AuthenticationError"]
        ELSE IF resolved_.thrown # ""
        THEN [thrown |-> resolved_.thrown]
        ELSE [thrown |-> "", signed |-> TRUE,
              instruction |-> instruction,
              query |-> query,
              payload |-> payload,
              url |-> Url(r, query, queryString),
              body |-> Body(r, query),
              headers |-> [timestamp |-> ToString(r.now + 1),
                           window |-> ToString(window(r)),
                           apiKey |-> "apiKey",
                           signature |-> signMessageWithEd25519(payload)]]

sign_unsortedUrl(r) ==
    LET query == omit(r.params, extractParams(r.path))
        resolved_ == getInstructionType(r.path, r.method)
        instruction == resolved_.instruction
        queryString == QueryString(r.method, query, instruction)
        payload == SignaturePayload(query, queryString, instruction, r.now, window(r))
    IN  IF r.api = "public"
        THEN [thrown |-> "", signed |-> FALSE,
              url |-> Url(r, query, <<>>), body |-> <<>>]
        ELSE IF ~r.credentials
        THEN [thrown |-> "AuthenticationError"]
        ELSE IF resolved_.thrown # ""
        THEN [thrown |-> resolved_.thrown]
        ELSE [thrown |-> "", signed |-> TRUE,
              instruction |-> instruction,
              query |-> query,
              payload |-> payload,
              url |-> Url(r, query, urlencode(query)),
              body |-> Body(r, query),
              headers |-> [timestamp |-> ToString(r.now),
                           window |-> ToString(window(r)),
                           apiKey |-> "apiKey",
                           signature |-> signMessageWithEd25519(payload)]]

sign(r) ==
    LET query == omit(r.params, extractParams(r.path))
        resolved_ == getInstructionType(r.path, r.method)
        instruction == resolved_.instruction
        queryString == QueryString(r.method, query, instruction)
        payload == SignaturePayload(query, queryString, instruction, r.now, window(r))
    IN  IF r.api = "public"
        THEN [thrown |-> "", signed |-> FALSE,
              url |-> Url(r, query, <<>>), body |-> <<>>]
        ELSE IF ~r.credentials
        THEN [thrown |-> "AuthenticationError"]
        ELSE IF resolved_.thrown # ""
        THEN [thrown |-> resolved_.thrown]
        ELSE [thrown |-> "", signed |-> TRUE,
              instruction |-> instruction,
              query |-> query,
              payload |-> payload,
              url |-> Url(r, query, queryString),
              body |-> Body(r, query),
              headers |-> [timestamp |-> ToString(r.now),
                           window |-> ToString(window(r)),
                           apiKey |-> "apiKey",
                           signature |-> signMessageWithEd25519(payload)]]

----------------------------------------------------------------------------
(* pro/backpack.ts *)

OrdersLimit == 1000

OrderBookHash(symbol) == <<"orderbook", symbol>>
OrdersHash == <<"orders">>
OrdersSymbolHash(symbol) == <<"orders", symbol>>

\* the client state a handler starts from: nothing resolved, nothing raised
This == [orderbooks |-> orderbooks, orders |-> orders, futures |-> futures,
         resolved |-> EmptyMap, thrown |-> "",
         tickers |-> tickers, trades |-> trades, ohlcvs |-> ohlcvs,
         positions |-> positions, options |-> options]

SetBook(this, symbol, orderbook) ==
    [this EXCEPT !.orderbooks = [s \in (DOMAIN @) \cup {symbol} |->
                                    IF s = symbol THEN orderbook ELSE @[s]]]

handleOrderBook_swapSides(this, message) ==
    LET data == message.data
        symbol == safeMarket(data.s).symbol
        orderbook == IF symbol \in DOMAIN this.orderbooks
                     THEN this.orderbooks[symbol] ELSE orderBook(symbol)
        merged == [orderbook EXCEPT !.asks = handleDeltas(@, data.b),
                                    !.bids = handleDeltas(@, data.a),
                                    !.timestamp = safeIntegerProduct(data.T, 1000),
                                    !.nonce = data.u]
    IN  resolve(SetBook(this, symbol, merged), merged, OrderBookHash(symbol))

handleOrderBook_skipBids(this, message) ==
    LET data == message.data
        symbol == safeMarket(data.s).symbol
        orderbook == IF symbol \in DOMAIN this.orderbooks
                     THEN this.orderbooks[symbol] ELSE orderBook(symbol)
        merged == [orderbook EXCEPT !.asks = handleDeltas(@, data.a),
                                    !.timestamp = safeIntegerProduct(data.T, 1000),
                                    !.nonce = data.u]
    IN  resolve(SetBook(this, symbol, merged), merged, OrderBookHash(symbol))

handleOrderBook_earlyResolve(this, message) ==
    LET data == message.data
        symbol == safeMarket(data.s).symbol
        orderbook == IF symbol \in DOMAIN this.orderbooks
                     THEN this.orderbooks[symbol] ELSE orderBook(symbol)
        withAsks == [orderbook EXCEPT !.asks = handleDeltas(@, data.a)]
        merged == [withAsks EXCEPT !.bids = handleDeltas(@, data.b),
                                   !.timestamp = safeIntegerProduct(data.T, 1000),
                                   !.nonce = data.u]
    IN  resolve(SetBook(this, symbol, merged), withAsks, OrderBookHash(symbol))

handleOrderBook_rawTime(this, message) ==
    LET data == message.data
        symbol == safeMarket(data.s).symbol
        orderbook == IF symbol \in DOMAIN this.orderbooks
                     THEN this.orderbooks[symbol] ELSE orderBook(symbol)
        withAsks == [orderbook EXCEPT !.asks = handleDeltas(@, data.a)]
        withBids == [withAsks EXCEPT !.bids = handleDeltas(@, data.b)]
        withTime == [withBids EXCEPT !.timestamp = data.T]
        withNonce == [withTime EXCEPT !.nonce = data.u]
    IN  resolve(SetBook(this, symbol, withNonce), withNonce, OrderBookHash(symbol))

handleOrderBook_absentIsError(this, message) ==
    LET data == message.data
        symbol == safeMarket(data.s).symbol
        orderbook == IF symbol \in DOMAIN this.orderbooks
                     THEN this.orderbooks[symbol] ELSE orderBook(symbol)
        missing(bookside, deltas) ==
            \E i \in 1..Len(deltas) :
                deltas[i][2] = 0 /\ deltas[i][1] \notin DOMAIN bookside
        withAsks == [orderbook EXCEPT !.asks = handleDeltas(@, data.a)]
        withBids == [withAsks EXCEPT !.bids = handleDeltas(@, data.b)]
        withTime == [withBids EXCEPT !.timestamp = safeIntegerProduct(data.T, 1000)]
        withNonce == [withTime EXCEPT !.nonce = data.u]
    IN  IF missing(orderbook.asks, data.a) \/ missing(orderbook.bids, data.b)
        THEN [SetBook(this, symbol, orderbook) EXCEPT !.thrown = "BadRequest"]
        ELSE resolve(SetBook(this, symbol, withNonce), withNonce, OrderBookHash(symbol))

handleOrderBook_checkContinuity(this, message) ==
    LET data == message.data
        symbol == safeMarket(data.s).symbol
        orderbook == IF symbol \in DOMAIN this.orderbooks
                     THEN this.orderbooks[symbol] ELSE orderBook(symbol)
        withAsks == [orderbook EXCEPT !.asks = handleDeltas(@, data.a)]
        withBids == [withAsks EXCEPT !.bids = handleDeltas(@, data.b)]
        withTime == [withBids EXCEPT !.timestamp = safeIntegerProduct(data.T, 1000)]
        withNonce == [withTime EXCEPT !.nonce = data.u]
    IN  IF orderbook.nonce # NoValue /\ data.U # orderbook.nonce + 1
        THEN SetBook(this, symbol, orderbook)
        ELSE resolve(SetBook(this, symbol, withNonce), withNonce, OrderBookHash(symbol))

handleOrderBook(this, message) ==
    LET data == message.data
        symbol == safeMarket(data.s).symbol
        orderbook == IF symbol \in DOMAIN this.orderbooks
                     THEN this.orderbooks[symbol] ELSE orderBook(symbol)
        withAsks == [orderbook EXCEPT !.asks = handleDeltas(@, data.a)]
        withBids == [withAsks EXCEPT !.bids = handleDeltas(@, data.b)]
        withTime == [withBids EXCEPT !.timestamp = safeIntegerProduct(data.T, 1000)]
        withNonce == [withTime EXCEPT !.nonce = data.u]
    IN  resolve(SetBook(this, symbol, withNonce), withNonce, OrderBookHash(symbol))

\* fee is undefined when the fee fields n and N are read into it
parseWsOrder(order, market) ==
    IF order.fee
    THEN [thrown |-> "TypeError"]
    ELSE [thrown |-> "",
          order |-> [id |-> order.i, symbol |-> market.symbol, status |-> order.X]]

\* ArrayCacheBySymbolById.append: replace the entry of the same symbol and id in
\* place, else append, evicting the oldest entry beyond the limit
ArrayCacheBySymbolById_append(cache, item, limit) ==
    LET same(x) == x.symbol = item.symbol /\ x.id = item.id
        appended == Append(cache, item)
    IN  IF \E i \in 1..Len(cache) : same(cache[i])
        THEN [i \in 1..Len(cache) |-> IF same(cache[i]) THEN item ELSE cache[i]]
        ELSE IF limit # NoValue /\ Len(appended) > limit THEN Tail(appended)
        ELSE appended

handleOrderUpdate(this, message) ==
    LET data == message.data
        market == safeMarket(data.s)
        parsed == parseWsOrder(data, market)
        cachedOrders == IF this.orders = <<>> THEN <<>> ELSE this.orders[1]
        stored == ArrayCacheBySymbolById_append(cachedOrders, parsed.order, OrdersLimit)
        withOrders == [this EXCEPT !.orders = <<stored>>]
    IN  IF parsed.thrown # ""
        THEN [this EXCEPT !.thrown = parsed.thrown]
        ELSE resolve(resolve(withOrders, stored, OrdersHash),
                     stored, OrdersSymbolHash(parsed.order.symbol))

\* parseTicker reads symbol, timestamp and lastPrice, none of which a ticker
\* message carries: the symbol is the market's, the other fields are undefined
parseTicker(ticker, market_) ==
    [symbol |-> market_.symbol, timestamp |-> NoValue, last |-> NoValue,
     info |-> ticker]

handleTicker(this, message) ==
    LET data == message.data
        market_ == safeMarket(data.s)
        symbol == market_.symbol
        ticker == parseTicker(data, market_)
        stored == [this EXCEPT !.tickers = [s \in (DOMAIN @) \cup {symbol} |->
                                               IF s = symbol THEN ticker ELSE @[s]]]
    IN  resolve(stored, ticker, <<"ticker", symbol>>)

\* parseTrade reads id, timestamp, price and quantity, none of which a trade
\* message carries
parseTrade(trade, market_) ==
    [id |-> NoValue, timestamp |-> NoValue, symbol |-> market_.symbol,
     price |-> NoValue, amount |-> NoValue, info |-> trade]

\* this.safeInteger (this.options, key, 1000)
LimitOption(this, key) ==
    IF this.options[key] = NoValue THEN 1000 ELSE this.options[key]

\* ArrayCache.append: the oldest entry leaves a full cache, the item goes last
ArrayCache_append(cache, item, limit) ==
    IF Len(cache) >= limit THEN Append(Tail(cache), item) ELSE Append(cache, item)

handleTrade_evictNewest(this, message) ==
    LET data == message.data
        market_ == safeMarket(data.s)
        symbol == market_.symbol
        trade == parseTrade(data, market_)
        limit == LimitOption(this, "tradesLimit")
        before == IF symbol \in DOMAIN this.trades THEN this.trades[symbol] ELSE <<>>
        stored == IF Len(before) >= limit
                  THEN Append(SubSeq(before, 1, Len(before) - 1), trade)
                  ELSE Append(before, trade)
        cached == [this EXCEPT !.trades = [s \in (DOMAIN @) \cup {symbol} |->
                                              IF s = symbol THEN stored ELSE @[s]]]
    IN  resolve(cached, stored, <<"trades", symbol>>)

handleTrade(this, message) ==
    LET data == message.data
        market_ == safeMarket(data.s)
        symbol == market_.symbol
        trade == parseTrade(data, market_)
        limit == LimitOption(this, "tradesLimit")
        before == IF symbol \in DOMAIN this.trades THEN this.trades[symbol] ELSE <<>>
        stored == ArrayCache_append(before, trade, limit)
        cached == [this EXCEPT !.trades = [s \in (DOMAIN @) \cup {symbol} |->
                                              IF s = symbol THEN stored ELSE @[s]]]
    IN  resolve(cached, stored, <<"trades", symbol>>)

\* parseOHLCV reads start, open, high, low, close and volume, none of which a
\* kline message carries: the candle is an array of six undefined values, and
\* an array has neither a symbol nor an id
parseOHLCV(ohlcv, market_) ==
    [symbol |-> "undefined", id |-> "undefined",
     candle |-> <<NoValue, NoValue, NoValue, NoValue, NoValue, NoValue>>]

handleOHLCV_resetSymbol(this, message) ==
    LET data == message.data
        market_ == safeMarket(data.s)
        symbol == market_.symbol
        interval == IF Len(message.stream) > 1 THEN message.stream[2] ELSE "undefined"
        ohlcv == parseOHLCV(data, market_)
        ofSymbol == EmptyMap
        before == IF interval \in DOMAIN ofSymbol THEN ofSymbol[interval] ELSE <<>>
        stored == ArrayCacheBySymbolById_append(before, ohlcv,
                                                LimitOption(this, "OHLCVLimit"))
        withInterval == [i \in (DOMAIN ofSymbol) \cup {interval} |->
                            IF i = interval THEN stored ELSE ofSymbol[i]]
        cached == [this EXCEPT !.ohlcvs = [s \in (DOMAIN @) \cup {symbol} |->
                                              IF s = symbol THEN withInterval
                                              ELSE @[s]]]
    IN  resolve(cached, stored, <<"ohlcv", symbol, interval>>)

handleOHLCV(this, message) ==
    LET data == message.data
        market_ == safeMarket(data.s)
        symbol == market_.symbol
        interval == IF Len(message.stream) > 1 THEN message.stream[2] ELSE "undefined"
        ohlcv == parseOHLCV(data, market_)
        ofSymbol == IF symbol \in DOMAIN this.ohlcvs THEN this.ohlcvs[symbol]
                    ELSE EmptyMap
        before == IF interval \in DOMAIN ofSymbol THEN ofSymbol[interval] ELSE <<>>
        stored == ArrayCacheBySymbolById_append(before, ohlcv,
                                                LimitOption(this, "OHLCVLimit"))
        withInterval == [i \in (DOMAIN ofSymbol) \cup {interval} |->
                            IF i = interval THEN stored ELSE ofSymbol[i]]
        cached == [this EXCEPT !.ohlcvs = [s \in (DOMAIN @) \cup {symbol} |->
                                              IF s = symbol THEN withInterval
                                              ELSE @[s]]]
    IN  resolve(cached, stored, <<"ohlcv", symbol, interval>>)

parseWsPosition(position, market_) ==
    [id |-> position.i, symbol |-> safeMarket(position.s).symbol,
     contracts |-> position.q, info |-> position]

handlePositionUpdate(this, message) ==
    LET data == message.data
        parsed == parseWsPosition(data, NoValue)
        cachedPositions == IF this.positions = <<>> THEN <<>> ELSE this.positions[1]
        stored == ArrayCacheBySymbolById_append(cachedPositions, parsed, NoValue)
        cached == [this EXCEPT !.positions = <<stored>>]
    IN  resolve(cached, stored, <<"positions">>)

\* stream.indexOf (name) >= 0
StreamNames(stream, name) == \E i \in 1..Len(stream) : stream[i] = name

handleAccountData(this, message) ==
    IF StreamNames(message.stream, "orderUpdate")
    THEN handleOrderUpdate(this, message)
    ELSE IF StreamNames(message.stream, "positionUpdate")
    THEN handlePositionUpdate(this, message)
    ELSE this

handleMessage_unknownAsTicker(this, message) ==
    LET channel == IF Len(message.stream) > 0 THEN message.stream[1] ELSE ""
    IN  CASE channel = "ticker" -> handleTicker(this, message)
          [] channel = "trades" -> handleTrade(this, message)
          [] channel = "depth" -> handleOrderBook(this, message)
          [] channel = "kline" -> handleOHLCV(this, message)
          [] channel = "account" -> handleAccountData(this, message)
          [] OTHER -> handleTicker(this, message)

handleMessage(this, message) ==
    LET channel == IF Len(message.stream) > 0 THEN message.stream[1] ELSE ""
    IN  CASE channel = "ticker" -> handleTicker(this, message)
          [] channel = "trades" -> handleTrade(this, message)
          [] channel = "depth" -> handleOrderBook(this, message)
          [] channel = "kline" -> handleOHLCV(this, message)
          [] channel = "account" -> handleAccountData(this, message)
          [] OTHER -> this

----------------------------------------------------------------------------
(* Steps of the stream client *)

\* the transport delivers one frame; it is handled before anything else runs
Receive(message) ==
    /\ inbox = <<>>
    /\ inbox' = <<message>>
    /\ resolved' = EmptyMap
    /\ thrown' = ""
    /\ UNCHANGED <<orderbooks, orders, futures, lastPair, stale, request, response,
                   cacheVars, subscribeVars>>

IsDepth(message) == Len(message.stream) > 0 /\ message.stream[1] = "depth"

Handle ==
    /\ inbox # <<>>
    /\ LET after == handleMessage(This, inbox[1])
       IN  /\ orderbooks' = after.orderbooks
           /\ orders' = after.orders
           /\ futures' = after.futures
           /\ resolved' = after.resolved
           /\ thrown' = after.thrown
           /\ tickers' = after.tickers
           /\ trades' = after.trades
           /\ ohlcvs' = after.ohlcvs
           /\ positions' = after.positions
           /\ UNCHANGED options
    /\ stale' = IF IsDepth(inbox[1])
                THEN stale \ {safeMarket(inbox[1].data.s).symbol} ELSE stale
    /\ inbox' = <<>>
    /\ UNCHANGED <<request, response, subscribeVars>>

\* history of the pairs a message carries: the last pair of a price on a side
RECURSIVE RecordPairs(_, _)
RecordPairs(last, deltas) ==
    IF deltas = <<>> THEN last
    ELSE RecordPairs([last EXCEPT ![Head(deltas)[1]] = Head(deltas)[2]], Tail(deltas))

HandleMessage ==
    /\ Handle
    /\ UNCHANGED <<lastPair, handled>>

\* handleMessage, with the frame it returned from kept for the record
HandleMessageLogged ==
    /\ Handle
    /\ handled' = inbox
    /\ UNCHANGED lastPair

HandleMessageRecording ==
    /\ Handle
    /\ lastPair' =
          IF IsDepth(inbox[1])
          THEN [lastPair EXCEPT ![safeMarket(inbox[1].data.s).symbol] =
                   [asks |-> RecordPairs(@.asks, inbox[1].data.a),
                    bids |-> RecordPairs(@.bids, inbox[1].data.b)]]
          ELSE lastPair
    /\ UNCHANGED handled

\* this.watch (url, messageHash, request, messageHash): the call waits on messageHash
watch(messageHash) ==
    /\ inbox = <<>>
    /\ messageHash \notin futures
    /\ futures' = futures \cup {messageHash}
    /\ resolved' = EmptyMap
    /\ thrown' = ""
    /\ UNCHANGED <<inbox, orderbooks, orders, lastPair, stale, request, response,
                   cacheVars, subscribeVars>>

WatchOrderBook(symbol) == watch(OrderBookHash(symbol))

WatchOrders(symbol) ==
    IF symbol = "" THEN watch(OrdersHash) ELSE watch(OrdersSymbolHash(symbol))

\* the transport drops and reconnects; no handler of the client resets a book
Reconnect ==
    /\ inbox = <<>>
    /\ stale # DOMAIN orderbooks
    /\ stale' = DOMAIN orderbooks
    /\ resolved' = EmptyMap
    /\ thrown' = ""
    /\ UNCHANGED <<inbox, orderbooks, orders, futures, lastPair, request, response,
                   cacheVars, subscribeVars>>

----------------------------------------------------------------------------
(* Specifications of the stream client *)

\* neither limit is set: each cache takes its default
DefaultOptions == [tradesLimit |-> NoValue, OHLCVLimit |-> NoValue]

InitStream ==
    /\ inbox = <<>>
    /\ orderbooks = EmptyMap
    /\ orders = <<>>
    /\ futures = {}
    /\ resolved = EmptyMap
    /\ thrown = ""
    /\ lastPair = [s \in Symbols |-> [side \in Sides |-> [p \in Prices |-> NoValue]]]
    /\ stale = {}
    /\ tickers = EmptyMap
    /\ trades = EmptyMap
    /\ ohlcvs = EmptyMap
    /\ positions = <<>>
    /\ handled = <<>>
    /\ clock = 1700000000
    /\ outbox = <<>>
    /\ sent = <<>>

Init ==
    /\ InitStream
    /\ options = DefaultOptions
    /\ request = <<>>
    /\ response = <<>>

DepthSymbols == {safeMarket(m).symbol : m \in DepthMarkets}

\* the depth stream of one market and its watchers
NextBook ==
    \/ \E message \in BookDepthMessages : Receive(message)
    \/ HandleMessage
    \/ \E symbol \in DepthSymbols : WatchOrderBook(symbol)

SpecBook == Init /\ [][NextBook]_vars

\* the depth stream of one market across reconnects of the transport
NextReconnect ==
    \/ \E message \in PlainDepthMessages : Receive(message)
    \/ HandleMessage
    \/ Reconnect

SpecReconnect == Init /\ [][NextReconnect]_vars

\* the depth stream with the history of the pairs it carried
NextHistory ==
    \/ \E message \in PlainDepthMessages : Receive(message)
    \/ HandleMessageRecording

SpecHistory == Init /\ [][NextHistory]_vars

\* the order-update stream and its watchers
NextOrders ==
    \/ \E message \in OrderMessages : Receive(message)
    \/ HandleMessage
    \/ \E symbol \in Symbols \cup {""} : WatchOrders(symbol)

SpecOrders == Init /\ [][NextOrders]_vars

----------------------------------------------------------------------------
(* Specifications of sign: the requests are drawn, then signed *)

Sign ==
    /\ request # <<>>
    /\ response = <<>>
    /\ response' = [i \in 1..Len(request) |-> sign(request[i])]
    /\ UNCHANGED <<inbox, orderbooks, orders, futures, resolved, thrown, lastPair,
                   stale, request, cacheVars, subscribeVars>>

InitSign ==
    /\ InitStream
    /\ options = DefaultOptions
    /\ request \in {<<r>> : r \in Requests}
    /\ response = <<>>

SpecSign == InitSign /\ [][Sign]_vars

\* two private requests of one client, signed side by side
PairRequests ==
    {r \in Requests :
        /\ r.api = "private" /\ r.credentials
        /\ r.method \in {"GET", "POST"}
        /\ r.path \in {<<"orders">>, <<"order">>}
        /\ Len(r.params.items) <= 1}

InitSignPair ==
    /\ InitStream
    /\ options = DefaultOptions
    /\ request \in PairRequests \X PairRequests
    /\ response = <<>>

SpecSignPair == InitSignPair /\ [][Sign]_vars

----------------------------------------------------------------------------
(* Properties of the depth stream *)

Carries(deltas, price) == \E i \in 1..Len(deltas) : deltas[i][1] = price

\* the quantity of the last pair of a price in a list that carries it
LastOf(deltas, price) ==
    deltas[CHOOSE i \in 1..Len(deltas) :
              /\ deltas[i][1] = price
              /\ \A j \in (i + 1)..Len(deltas) : deltas[j][1] # price][2]

\* a handleMessage step on a depth frame
DepthStep == inbox # <<>> /\ inbox' = <<>> /\ IsDepth(inbox[1])

DepthSymbol == safeMarket(inbox[1].data.s).symbol

PreBook == IF DepthSymbol \in DOMAIN orderbooks
           THEN orderbooks[DepthSymbol] ELSE orderBook(DepthSymbol)

Applied(bookside, deltas) ==
    \A p \in Prices :
        Carries(deltas, p) =>
            IF LastOf(deltas, p) = 0
            THEN p \notin DOMAIN bookside
            ELSE p \in DOMAIN bookside /\ bookside[p] = LastOf(deltas, p)

\* C1: handling a depth message leaves every price of its asks list off the
\* book's asks when its quantity is zero and at that quantity otherwise, and the
\* same for the bids; a: [[18.70, 0]], b: [[18.67, 0.832]] on an empty book gives
\* no ask and the single bid 18.67 -> 0.832
C1_ZeroRemovesOtherSets ==
    [][DepthStep =>
          LET data == inbox[1].data
              book == orderbooks'[DepthSymbol]
          IN  /\ Applied(book.asks, data.a)
              /\ Applied(book.bids, data.b)
              /\ (/\ DepthSymbol \notin DOMAIN orderbooks
                  /\ data.a = << <<1870, 0>> >>
                  /\ data.b = << <<1867, 832>> >>)
                 => /\ book.asks = EmptyMap
                    /\ DOMAIN book.bids = {1867}
                    /\ book.bids[1867] = 832]_vars

C1_Witness ==
    /\ inbox = <<>>
    /\ "SOL/USDC" \in DOMAIN orderbooks
    /\ lastPair["SOL/USDC"].asks[1870] = 0
    /\ lastPair["SOL/USDC"].bids[1867] = 832
    /\ 1870 \notin DOMAIN orderbooks["SOL/USDC"].asks
    /\ 1867 \in DOMAIN orderbooks["SOL/USDC"].bids

\* C2: in every state a price is on a side of a book exactly if the most recent
\* pair for it on that side had a non-zero quantity, the level holds that
\* quantity, and no level holds zero
C2_LastAppliedWins ==
    \A s \in DOMAIN orderbooks : \A side \in Sides : \A p \in Prices :
        LET last == lastPair[s][side][p]
            bookside == orderbooks[s][side]
        IN  /\ p \in DOMAIN bookside <=> (last # NoValue /\ last # 0)
            /\ p \in DOMAIN bookside => (bookside[p] = last /\ bookside[p] # 0)

C2_Witness ==
    /\ inbox = <<>>
    /\ "SOL/USDC" \in DOMAIN orderbooks
    /\ lastPair["SOL/USDC"].bids[1867] = 1500
    /\ lastPair["SOL/USDC"].bids[1870] = 0
    /\ lastPair["SOL/USDC"].asks[1867] = 0
    /\ lastPair["SOL/USDC"].asks[1870] = 832
    /\ DOMAIN orderbooks["SOL/USDC"].bids = {1867}
    /\ orderbooks["SOL/USDC"].bids[1867] = 1500
    /\ DOMAIN orderbooks["SOL/USDC"].asks = {1870}

\* C3: no step leaves the nonce of a book smaller than it was
C3_NonceNeverDecreases ==
    [][\A s \in DOMAIN orderbooks : orderbooks'[s].nonce >= orderbooks[s].nonce]_vars

\* C4: the book handed to the waiters of 'orderbook:<symbol>' is the stored book
\* with the asks, the bids, the timestamp and the nonce of the message all
\* applied, and the stored books change in no other step
C4_PublishedFullyMerged ==
    [][IF DepthStep
       THEN LET data == inbox[1].data
                full == [PreBook EXCEPT !.asks = handleDeltas(@, data.a),
                                        !.bids = handleDeltas(@, data.b),
                                        !.timestamp = data.T \div 1000,
                                        !.nonce = data.u]
            IN  /\ orderbooks'[DepthSymbol] = full
                /\ OrderBookHash(DepthSymbol) \in futures
                   => /\ DOMAIN resolved' = {OrderBookHash(DepthSymbol)}
                      /\ resolved'[OrderBookHash(DepthSymbol)] = full
       ELSE orderbooks' = orderbooks /\ resolved' = EmptyMap]_vars

C4_Witness ==
    /\ OrderBookHash("SOL/USDC") \in DOMAIN resolved
    /\ resolved[OrderBookHash("SOL/USDC")].asks # EmptyMap
    /\ resolved[OrderBookHash("SOL/USDC")].bids # EmptyMap
    /\ resolved[OrderBookHash("SOL/USDC")].nonce = 2
    /\ resolved[OrderBookHash("SOL/USDC")].timestamp = 2

\* C5: the first depth message handled for a book held across a reconnect
\* leaves on the book only the levels that the message carries
C5_FreshBootstrapAfterReconnect ==
    [][(DepthStep /\ DepthSymbol \in stale) =>
          LET data == inbox[1].data
              book == orderbooks'[DepthSymbol]
          IN  /\ \A p \in DOMAIN book.asks : Carries(data.a, p)
              /\ \A p \in DOMAIN book.bids : Carries(data.b, p)]_vars

----------------------------------------------------------------------------
(* Properties of the order-update stream *)

OrderStep ==
    /\ inbox # <<>> /\ inbox' = <<>>
    /\ Len(inbox[1].stream) > 0 /\ inbox[1].stream[1] = "account"
    /\ StreamNames(inbox[1].stream, "orderUpdate")

Holds(cache, symbol, data) ==
    \E i \in 1..Len(cache) :
        cache[i].symbol = symbol /\ cache[i].id = data.i /\ cache[i].status = data.X

\* C6: one order update for symbol S releases the pending waiters of 'orders'
\* and of 'orders:S', each with the cache that holds the new order
C6_BothHashesResolved ==
    [][OrderStep =>
          LET data == inbox[1].data
              symbol == safeMarket(data.s).symbol
          IN  \A h \in {OrdersHash, OrdersSymbolHash(symbol)} :
                  h \in futures => /\ h \in DOMAIN resolved'
                                   /\ Holds(resolved'[h], symbol, data)]_vars

----------------------------------------------------------------------------
(* Properties of sign *)

Signed(i) == response # <<>> /\ response[i].thrown = "" /\ response[i].signed

Stamp(r) == <<"&", "timestamp", "=", ToString(r.now),
              "&", "window", "=", ToString(r.recvWindow)>>

\* the parameters in lexicographic order of the keys, URL-encoded
SortedEncoding(object) ==
    Join([i \in 1..Len(SelectSeq(ParamKeys, LAMBDA k : HasKey(object, k))) |->
             LET key == SelectSeq(ParamKeys, LAMBDA k : HasKey(object, k))[i]
             IN  <<key, "=">> \o encodeURIComponent(ValueOf(object, key))],
         <<"&">>)

\* params as a value: the entries of an object whatever their insertion order
Canonical(params) ==
    IF params.kind = "array"
    THEN [params EXCEPT !.items = [i \in 1..Len(@) |-> keysortObject(@[i])]]
    ELSE [params EXCEPT !.value = keysortObject(@)]

Inputs(i) == <<response[i].instruction, Canonical(request[i].params),
               request[i].now, request[i].recvWindow>>

Occurrences(payload, instruction) ==
    Cardinality({i \in 1..(Len(payload) - 2) :
                    /\ payload[i] = "instruction"
                    /\ payload[i + 1] = "="
                    /\ payload[i + 2] = instruction})

IsWrite(r) == r.method # "GET" /\ r.method # "DELETE"

\* C8: the payload of a batch write of N objects is the N segments
\* 'instruction=<name>&<sorted encoded object>' joined by '&' in array order,
\* followed by '&timestamp=<ms>&window=<ms>', with exactly N 'instruction=<name>'
C8_BatchPayload ==
    (Signed(1) /\ IsWrite(request[1]) /\ request[1].params.kind = "array") =>
        LET r == request[1]
            name == response[1].instruction
            batch == r.params.items
        IN  /\ response[1].payload =
                  Join([i \in 1..Len(batch) |->
                           <<"instruction", "=", name, "&">> \o SortedEncoding(batch[i])],
                       <<"&">>) \o Stamp(r)
            /\ Occurrences(response[1].payload, name) = Len(batch)

C8_Witness ==
    /\ Signed(1)
    /\ request[1].method = "POST"
    /\ request[1].params.kind = "array"
    /\ Len(request[1].params.items) = 2
    /\ Len(request[1].params.items[1]) = 2
    /\ request[1].params.items[1][1][1] = "symbol"
    /\ Len(request[1].params.items[2]) = 1
    /\ Occurrences(response[1].payload, "orderExecute") = 2

\* C9: the payload of a GET, a DELETE or a single-object write is
\* 'instruction=<name>&<params>&timestamp=<ms>&window=<ms>' with the params
\* URL-encoded in lexicographic key order, and without '&<params>' if there are none
C9_SingleObjectPayload ==
    (Signed(1) /\ request[1].params.kind = "object") =>
        LET r == request[1]
            name == response[1].instruction
            entries == r.params.value
        IN  response[1].payload =
                IF entries # <<>>
                THEN <<"instruction", "=", name, "&">> \o SortedEncoding(entries) \o Stamp(r)
                ELSE <<"instruction", "=", name>> \o Stamp(r)

C9_Witness ==
    /\ Signed(1)
    /\ request[1].method = "DELETE"
    /\ request[1].params.kind = "object"
    /\ Len(request[1].params.value) = 2
    /\ request[1].params.value[1][1] = "symbol"
    /\ request[1].params.value[1][2] = <<"a", "&", "b", "=", "c">>

InstructionNames == {entry[3] : entry \in instructionTypes}

\* C10: sign returns no request for a private endpoint without an entry in the
\* instruction table: it raises NotSupported (the credentials error if the
\* credentials are missing), and a signed request names an instruction of the table
C10_UnmappedNotSupported ==
    response # <<>> =>
        LET r == request[1]
        IN  /\ (r.api # "public" /\ ~Mapped(r.method, r.path)) =>
                  /\ response[1].thrown # ""
                  /\ r.credentials => response[1].thrown = "NotSupported"
            /\ Signed(1) => response[1].instruction \in InstructionNames

C10_Witness ==
    /\ response # <<>>
    /\ request[1].api = "private"
    /\ request[1].method = "PUT"
    /\ request[1].path = <<"orders", "/", "{orderId}">>
    /\ response[1].thrown = "NotSupported"

----------------------------------------------------------------------------
(* Lookups of the instruction of an endpoint *)

OrderIds == {"123", "456", "abc"}

\* the paths the client declares or the unit test asks for, and paths that
\* carry a concrete order id
LookupPaths ==
    {<<"capital">>, <<"orders">>, <<"order">>, <<"account">>,
     <<"orders", "/", "execute">>, <<"depositAddress">>,
     <<"capital", "/", "dust", "/", "convert">>, <<"borrowLend">>}
    \cup {<<"orders", "/", "{" \o k \o "}">> : k \in KeySet}
    \cup {<<"orders", "/", id>> : id \in OrderIds}

Lookup(method, path) == [method |-> method, path |-> path]

\* one lookup, or the lookups of one endpoint shape: with the placeholder and
\* with two concrete ids
Lookups ==
    {<<Lookup(m, p)>> : m \in Methods, p \in LookupPaths}
    \cup {<<Lookup(m, <<"orders", "/", "{" \o k \o "}">>),
            Lookup(m, <<"orders", "/", x>>),
            Lookup(m, <<"orders", "/", y>>)>> :
             m \in Methods, k \in KeySet, x \in OrderIds, y \in OrderIds}

Resolve ==
    /\ request # <<>>
    /\ response = <<>>
    /\ response' = [i \in 1..Len(request) |->
                       getInstructionType(request[i].path, request[i].method)]
    /\ UNCHANGED <<inbox, orderbooks, orders, futures, resolved, thrown, lastPair,
                   stale, request, cacheVars, subscribeVars>>

InitResolve ==
    /\ InitStream
    /\ options = DefaultOptions
    /\ request \in Lookups
    /\ response = <<>>

SpecResolve == InitResolve /\ [][Resolve]_vars

Resolved(i) == response # <<>> /\ response[i].thrown = ""

\* C11: the lookups of one endpoint shape, with the placeholder and with any two
\* concrete ids, all resolve, and to the same instruction
C11_SameInstructionForAnyId ==
    (response # <<>> /\ Len(request) = 3) =>
        /\ \A i \in 1..3 : Resolved(i)
        /\ response[1] = response[2]
        /\ response[2] = response[3]

\* C12: the lookups of the unit test resolve to the instructions it expects
C12_TestedInstructions ==
    (response # <<>> /\ Len(request) = 1) =>
        LET r == request[1]
            Expect(name) == Resolved(1) /\ response[1].instruction = name
        IN  /\ (r.method = "GET" /\ r.path = <<"capital">>) => Expect("balanceQuery")
            /\ (r.method = "GET" /\ r.path = <<"orders">>) => Expect("orderQueryAll")
            /\ (r.method = "POST" /\ r.path = <<"orders", "/", "execute">>)
                  => Expect("orderExecute")
            /\ (r.method = "DELETE" /\ r.path = <<"order">>) => Expect("orderCancel")

----------------------------------------------------------------------------
(* Requests of a client whose recvWindow option is set or missing *)

WindowRequests ==
    [api : Apis, method : Methods, path : Paths,
     params : {Object(o) : o \in {x \in Objects : Len(x) <= 1}},
     now : MilliTimes, recvWindow : RecvWindows \cup {NoValue},
     credentials : BOOLEAN]

InitSignWindow ==
    /\ InitStream
    /\ options = DefaultOptions
    /\ request \in {<<r>> : r \in WindowRequests}
    /\ response = <<>>

SpecSignWindow == InitSignWindow /\ [][Sign]_vars

\* the last n elements of a sequence
Suffix(sequence, n) == SubSeq(sequence, Len(sequence) - n + 1, Len(sequence))

\* C13: the headers of a signed request carry the timestamp and the window that
\* end the signed payload, the key id and the signature of that payload; the
\* window is the recvWindow option, 5000 when the option is missing
C13_HeadersMatchPayload ==
    Signed(1) =>
        LET r == request[1]
            headers == response[1].headers
        IN  /\ Suffix(response[1].payload, 8) =
                  <<"&", "timestamp", "=", headers.timestamp,
                    "&", "window", "=", headers.window>>
            /\ headers.timestamp = ToString(r.now)
            /\ headers.window =
                  ToString(IF r.recvWindow = NoValue THEN 5000 ELSE r.recvWindow)
            /\ headers.apiKey = "apiKey"
            /\ headers.signature = signMessageWithEd25519(response[1].payload)

C13_Witness ==
    /\ Signed(1)
    /\ request[1].recvWindow = NoValue
    /\ request[1].method = "DELETE"
    /\ request[1].params.value # <<>>
    /\ response[1].headers.window = "5000"
    /\ response[1].headers.timestamp = "1700000001"

----------------------------------------------------------------------------
(* Subscribe frames, pro/backpack.ts *)

MaxFrames == 2        \* subscribe frames queued or sent in one run
MaxDelay == 2         \* milliseconds the clock advances in one run

StartTime == 1700000000

Timeframes == {"1m", "1h"}
WatchSymbols == {"SOL/USDC"}
WsParams == {EmptyMap, [id |-> 7]}

\* this.market (symbol)
market(symbol) ==
    [symbol |-> symbol,
     id |-> CASE symbol = "SOL/USDC" -> "SOL_USDC"
              [] symbol = "BTC/USDC" -> "BTC_USDC"
              [] OTHER -> symbol]

\* this.extend (a, b): the fields of a, then those of b over them
extend(a, b) ==
    [k \in (DOMAIN a) \cup (DOMAIN b) |-> IF k \in DOMAIN b THEN b[k] ELSE a[k]]

\* this.signMessage (message, this.secret)
signMessage(message, secret) == <<"signature", secret, message>>

SubscribeFrame(streamName) == [method |-> "SUBSCRIBE", params |-> <<streamName>>]

\* what a watch method hands to this.watch, or the error it raises before
Watched(messageHash, frame) ==
    [thrown |-> "", messageHash |-> messageHash, request |-> frame]

signWebSocketMessage_staleWindow(frame, params, now, recvWindow) ==
    LET timestamp == now
        window_ == IF recvWindow = NoValue THEN 5000 ELSE recvWindow
        message == <<"instruction", "=", "subscribe",
                     "&", "timestamp", "=", ToString(timestamp),
                     "&", "window", "=", ToString(DefaultRecvWindow)>>
        signature == signMessage(message, "secret")
    IN  extend(frame, [signature |-> <<"apiKey", signature, ToString(timestamp),
                                       ToString(window_)>>])

signWebSocketMessage(frame, params, now, recvWindow) ==
    LET timestamp == now
        window_ == IF recvWindow = NoValue THEN 5000 ELSE recvWindow
        message == <<"instruction", "=", "subscribe",
                     "&", "timestamp", "=", ToString(timestamp),
                     "&", "window", "=", ToString(window_)>>
        signature == signMessage(message, "secret")
    IN  extend(frame, [signature |-> <<"apiKey", signature, ToString(timestamp),
                                       ToString(window_)>>])

\* this.checkRequiredCredentials ()
authenticate_noCheck(credentials) == ""

authenticate(credentials) == IF credentials THEN "" ELSE "AuthenticationError"

watchTicker(symbol, params) ==
    Watched(<<"ticker", market(symbol).symbol>>,
            extend(SubscribeFrame(<<"ticker", market(symbol).id>>), params))

watchTrades(symbol, params) ==
    Watched(<<"trades", market(symbol).symbol>>,
            extend(SubscribeFrame(<<"trades", market(symbol).id>>), params))

watchOrderBook(symbol, params) ==
    Watched(OrderBookHash(market(symbol).symbol),
            extend(SubscribeFrame(<<"depth", market(symbol).id>>), params))

watchOHLCV(symbol, timeframe, params) ==
    Watched(<<"ohlcv", market(symbol).symbol, timeframe>>,
            extend(SubscribeFrame(<<"kline", timeframe, market(symbol).id>>), params))

\* symbol "" is undefined: every market
watchOrders(symbol, params, credentials, now, recvWindow) ==
    LET messageHash == IF symbol # "" THEN OrdersSymbolHash(market(symbol).symbol)
                       ELSE OrdersHash
        streamName == IF symbol # "" THEN <<"account", "orderUpdate", market(symbol).id>>
                      ELSE <<"account", "orderUpdate">>
    IN  IF authenticate(credentials) # ""
        THEN [thrown |-> authenticate(credentials)]
        ELSE Watched(messageHash,
                     signWebSocketMessage(SubscribeFrame(streamName), params, now,
                                          recvWindow))

watchPositions(params, credentials, now, recvWindow) ==
    IF authenticate(credentials) # ""
    THEN [thrown |-> authenticate(credentials)]
    ELSE Watched(<<"positions">>,
                 signWebSocketMessage(SubscribeFrame(<<"account", "positionUpdate">>),
                                      params, now, recvWindow))

WatchMethods == {"watchTicker", "watchTrades", "watchOrderBook", "watchOHLCV",
                 "watchOrders", "watchPositions"}

\* the calls of the watch methods: symbol "" only for watchOrders, the timeframe
\* only read by watchOHLCV, credentials and recvWindow only by the account methods
WatchCalls ==
    {c \in [method : WatchMethods, symbol : WatchSymbols \cup {""},
            timeframe : Timeframes, params : WsParams, credentials : BOOLEAN,
            recvWindow : {NoValue, 10000}] :
        /\ c.symbol = "" => c.method \in {"watchOrders", "watchPositions"}
        /\ c.method = "watchPositions" => c.symbol = ""
        /\ c.method # "watchOHLCV" => c.timeframe = "1m"
        /\ c.method \notin {"watchOrders", "watchPositions"}
              => (c.credentials /\ c.recvWindow = NoValue)}

Call(c, now) ==
    CASE c.method = "watchTicker" -> watchTicker(c.symbol, c.params)
      [] c.method = "watchTrades" -> watchTrades(c.symbol, c.params)
      [] c.method = "watchOrderBook" -> watchOrderBook(c.symbol, c.params)
      [] c.method = "watchOHLCV" -> watchOHLCV(c.symbol, c.timeframe, c.params)
      [] c.method = "watchOrders" ->
            watchOrders(c.symbol, c.params, c.credentials, now, c.recvWindow)
      [] c.method = "watchPositions" ->
            watchPositions(c.params, c.credentials, now, c.recvWindow)

\* a watch method runs up to its await of this.watch: the frame is queued for the
\* connection and the call waits on its message hash
Subscribe(c) ==
    /\ Len(outbox) + Len(sent) < MaxFrames
    /\ LET called == Call(c, clock)
       IN  /\ thrown' = called.thrown
           /\ IF called.thrown = ""
              THEN /\ outbox' = Append(outbox, [method |-> c.method,
                                                frame |-> called.request])
                   /\ futures' = futures \cup {called.messageHash}
              ELSE UNCHANGED <<outbox, futures>>
    /\ UNCHANGED <<inbox, orderbooks, orders, resolved, lastPair, stale, request,
                   response, cacheVars, clock, sent>>

\* the connection puts the oldest queued frame on the wire
Send ==
    /\ outbox # <<>>
    /\ sent' = Append(sent, [method |-> Head(outbox).method,
                             frame |-> Head(outbox).frame, time |-> clock])
    /\ outbox' = Tail(outbox)
    /\ UNCHANGED <<inbox, orderbooks, orders, futures, resolved, thrown, lastPair,
                   stale, request, response, cacheVars, clock>>

Tick ==
    /\ clock < StartTime + MaxDelay
    /\ clock' = clock + 1
    /\ UNCHANGED <<inbox, orderbooks, orders, futures, resolved, thrown, lastPair,
                   stale, request, response, cacheVars, outbox, sent>>

NextSubscribe ==
    \/ \E c \in WatchCalls : Subscribe(c)
    \/ Send
    \/ Tick

SpecSubscribe == Init /\ [][NextSubscribe]_vars

Frames == [i \in 1..(Len(outbox) + Len(sent)) |->
              IF i <= Len(sent) THEN sent[i] ELSE outbox[i - Len(sent)]]

HasSignature(frame) == "signature" \in DOMAIN frame

C15_SignatureFreshAtSend ==
    /\ \A i \in 1..Len(sent) :
          HasSignature(sent[i].frame)
             => sent[i].frame.signature[3] = ToString(sent[i].time)
    /\ \A i, j \in 1..Len(sent) :
          (/\ HasSignature(sent[i].frame)
           /\ HasSignature(sent[j].frame)
           /\ sent[i].time # sent[j].time)
             => sent[i].frame.signature[2] # sent[j].frame.signature[2]

----------------------------------------------------------------------------
(* The router and the frames of every family *)

MaxTradeId == 3       \* trade ids run over 1..MaxTradeId
MaxPositionId == 2    \* position ids run over 1..MaxPositionId

TickerMessages ==
    {[stream |-> <<"ticker", s>>, data |-> [s |-> s, c |-> c, T |-> 940999]] :
        s \in DepthMarkets, c \in Prices}

TradeMessages ==
    {[stream |-> <<"trades", s>>,
      data |-> [s |-> s, t |-> t, p |-> 1867, T |-> 940999]] :
        s \in Markets, t \in 1..MaxTradeId}

KlineMessages ==
    {[stream |-> <<"kline", interval, s>>, data |-> [s |-> s, t |-> t, c |-> 1867]] :
        interval \in Timeframes, s \in Markets, t \in {1234, 1235}}

PositionMessages ==
    {[stream |-> <<"account", "positionUpdate">>,
      data |-> [s |-> "SOL_USDC_PERP", i |-> i, q |-> q]] :
        i \in 1..MaxPositionId, q \in {5, 6}}

\* frames of channels the client has no handler for, or without a stream
UnknownMessages ==
    {[stream |-> st, data |-> [s |-> "SOL_USDC"]] :
        st \in {<<>>, <<"bookTicker", "SOL_USDC">>, <<"markPrice", "SOL_USDC">>,
                <<"account">>, <<"account", "balanceUpdate">>,
                <<"orderUpdate", "SOL_USDC">>}}

\* a few frames of every family, and the unknown ones
RouterMessages ==
    {m \in TickerMessages : m.data.c = 1867}
    \cup {m \in TradeMessages : m.data.s = "SOL_USDC" /\ m.data.t = 1}
    \cup {m \in PlainDepthMessages : Len(m.data.a) = 0 /\ Len(m.data.b) = 1
                                     /\ m.data.b[1][1] = 1867 /\ m.data.b[1][2] # 1500}
    \cup {m \in KlineMessages : m.stream[2] = "1m" /\ m.data.s = "SOL_USDC"
                                /\ m.data.t = 1234}
    \cup {m \in OrderMessages : m.data.i = 1 /\ m.data.X = "New" /\ Len(m.stream) = 2}
    \cup {m \in PositionMessages : m.data.i = 1 /\ m.data.q = 5}
    \cup UnknownMessages

RouterHashes == {<<"ticker", "SOL/USDC">>, OrdersHash, <<"positions">>}

Families == {"ticker", "trades", "depth", "kline", "account"}

NextRouter ==
    \/ \E message \in RouterMessages : Receive(message)
    \/ HandleMessageLogged
    \/ \E messageHash \in RouterHashes : watch(messageHash)

\* a client configured to keep two trades per symbol
InitRouter ==
    /\ InitStream
    /\ options = [tradesLimit |-> 2, OHLCVLimit |-> NoValue]
    /\ request = <<>>
    /\ response = <<>>

SpecRouter == InitRouter /\ [][NextRouter]_vars

\* the envelope has no handler: an unknown family, or an account stream that
\* names neither update
Unroutable(message) ==
    \/ message.stream = <<>>
    \/ message.stream[1] \notin Families
    \/ /\ message.stream[1] = "account"
       /\ \A i \in 1..Len(message.stream) :
             message.stream[i] \notin {"orderUpdate", "positionUpdate"}

\* C16: handling an unroutable envelope raises nothing, resolves no waiter and
\* leaves tickers, trades, order books, klines, orders and positions as they were
C16_UnroutableDropped ==
    [][(inbox # <<>> /\ inbox' = <<>> /\ Unroutable(inbox[1])) =>
          /\ thrown' = ""
          /\ resolved' = EmptyMap
          /\ futures' = futures
          /\ UNCHANGED <<tickers, trades, orderbooks, ohlcvs, orders, positions>>]_vars

C16_Witness ==
    /\ inbox = <<>>
    /\ handled # <<>>
    /\ handled[1].stream = <<"account", "balanceUpdate">>
    /\ thrown = ""
    /\ resolved = EmptyMap
    /\ futures = RouterHashes
    /\ tickers # EmptyMap
    /\ trades # EmptyMap
    /\ orderbooks # EmptyMap
    /\ ohlcvs # EmptyMap
    /\ orders # <<>>
    /\ positions # <<>>

\* C17: handleMessage returns from every frame without raising
C17_NoMessageRaises ==
    (inbox = <<>> /\ handled # <<>>) => thrown = ""

----------------------------------------------------------------------------
(* The order cache and the position cache *)

AccountMessages ==
    {m \in OrderMessages : Len(m.stream) = 2} \cup PositionMessages

NextAccount ==
    \/ \E message \in AccountMessages : Receive(message)
    \/ HandleMessage

SpecAccount == Init /\ [][NextAccount]_vars

PositionStep ==
    /\ inbox # <<>> /\ inbox' = <<>>
    /\ Len(inbox[1].stream) > 0 /\ inbox[1].stream[1] = "account"
    /\ ~StreamNames(inbox[1].stream, "orderUpdate")
    /\ StreamNames(inbox[1].stream, "positionUpdate")

SameEntity(x, y) == x.symbol = y.symbol /\ x.id = y.id

\* after holds one entry per (symbol, id) and is before with item put in the
\* place of the entry of its (symbol, id), or appended when there was none
Upserted(before, after, item) ==
    /\ \A i, j \in 1..Len(after) : i # j => ~SameEntity(after[i], after[j])
    /\ IF \E i \in 1..Len(before) : SameEntity(before[i], item)
       THEN /\ Len(after) = Len(before)
            /\ \A i \in 1..Len(before) :
                  after[i] = IF SameEntity(before[i], item) THEN item ELSE before[i]
       ELSE /\ Len(after) = Len(before) + 1
            /\ after[Len(after)] = item
            /\ \A i \in 1..Len(before) : after[i] = before[i]

\* C18: every order update leaves the order cache, and every position update the
\* position cache, with the update upserted by (symbol, id)
C18_CachesUpsertById ==
    [][/\ OrderStep =>
             LET data == inbox[1].data
                 order == [id |-> data.i, symbol |-> safeMarket(data.s).symbol,
                           status |-> data.X]
             IN  /\ orders' # <<>>
                 /\ Upserted(IF orders = <<>> THEN <<>> ELSE orders[1], orders'[1], order)
       /\ PositionStep =>
             LET data == inbox[1].data
                 position == [id |-> data.i, symbol |-> safeMarket(data.s).symbol,
                              contracts |-> data.q, info |-> data]
             IN  /\ positions' # <<>>
                 /\ Upserted(IF positions = <<>> THEN <<>> ELSE positions[1],
                             positions'[1], position)]_vars

----------------------------------------------------------------------------
(* The trade caches *)

MaxTrades == 3        \* trades handled by a client that keeps the default limit

\* trades cached over all symbols
RECURSIVE Cached(_, _)
Cached(caches, symbols) ==
    IF symbols = {} THEN 0
    ELSE LET s == CHOOSE x \in symbols : TRUE
         IN  Len(caches[s]) + Cached(caches, symbols \ {s})

\* the client keeps the default limit, or is configured to keep two trades
InitTrades ==
    /\ InitStream
    /\ options \in {DefaultOptions, [tradesLimit |-> 2, OHLCVLimit |-> NoValue]}
    /\ request = <<>>
    /\ response = <<>>

ReceiveTrade(message) ==
    /\ options.tradesLimit = NoValue => Cached(trades, DOMAIN trades) < MaxTrades
    /\ Receive(message)

NextTrades ==
    \/ \E message \in TradeMessages : ReceiveTrade(message)
    \/ HandleMessageLogged

SpecTrades == InitTrades /\ [][NextTrades]_vars

TradeStep ==
    /\ inbox # <<>> /\ inbox' = <<>>
    /\ Len(inbox[1].stream) > 0 /\ inbox[1].stream[1] = "trades"

TradesLimit == IF options.tradesLimit = NoValue THEN 1000 ELSE options.tradesLimit

\* C19: a trade message leaves its symbol's cache no longer than tradesLimit,
\* with the new trade last and before it the trades held before, in their
\* order, less the oldest one when the cache was full; other caches keep theirs
C19_TradeCacheBounded ==
    [][TradeStep =>
          LET data == inbox[1].data
              symbol == safeMarket(data.s).symbol
              before == IF symbol \in DOMAIN trades THEN trades[symbol] ELSE <<>>
              after == trades'[symbol]
              kept == IF Len(before) = TradesLimit THEN Tail(before) ELSE before
          IN  /\ Len(after) <= TradesLimit
              /\ Len(after) = Len(kept) + 1
              /\ after[Len(after)].info = data
              /\ \A i \in 1..Len(kept) : after[i] = kept[i]
              /\ \A s \in DOMAIN trades : s # symbol => trades'[s] = trades[s]]_vars

C19_Witness ==
    /\ inbox = <<>>
    /\ options.tradesLimit = 2
    /\ handled # <<>>
    /\ handled[1].data.s = "SOL_USDC"
    /\ handled[1].data.t = 1
    /\ "SOL/USDC" \in DOMAIN trades
    /\ "BTC/USDC" \in DOMAIN trades
    /\ Len(trades["SOL/USDC"]) = 2
    /\ trades["SOL/USDC"][1].info.t = 3
    /\ trades["SOL/USDC"][2].info.t = 1
    /\ Len(trades["BTC/USDC"]) = 1

----------------------------------------------------------------------------
(* The kline caches *)

NextKlines ==
    \/ \E message \in KlineMessages : Receive(message)
    \/ HandleMessage

SpecKlines == Init /\ [][NextKlines]_vars

KlineStep ==
    /\ inbox # <<>> /\ inbox' = <<>>
    /\ Len(inbox[1].stream) > 0 /\ inbox[1].stream[1] = "kline"

\* the candles cached for a symbol and an interval
Candles(caches, symbol, interval) ==
    IF symbol \in DOMAIN caches /\ interval \in DOMAIN caches[symbol]
    THEN caches[symbol][interval] ELSE <<>>

\* C20: a kline message adds one candle at the end of the cache of its symbol
\* and interval, which keeps the candles it held in their order, and leaves
\* the cache of every other symbol and interval as it was
C20_KlineCacheAppends ==
    [][KlineStep =>
          LET symbol == safeMarket(inbox[1].data.s).symbol
              interval == inbox[1].stream[2]
              before == Candles(ohlcvs, symbol, interval)
              after == Candles(ohlcvs', symbol, interval)
          IN  /\ Len(before) < 1000 => Len(after) = Len(before) + 1
              /\ \A i \in 1..Len(before) : Len(before) < 1000 => after[i] = before[i]
              /\ \A s \in Symbols : \A tf \in Timeframes :
                    <<s, tf>> # <<symbol, interval>>
                       => Candles(ohlcvs', s, tf) = Candles(ohlcvs, s, tf)]_vars

----------------------------------------------------------------------------
(* Timestamps of the data-plane streams.  Times count from the second
   1694687965: T = 1694687965940999 microseconds is 940999 here and
   1694687965940 milliseconds is 940; dividing by 1000 leaves the offset
   1694687965 * 1000 of the milliseconds as it is. *)

WideMicroTimes == {1999, 2000, 940999, 941000}

TimeDepthMessages ==
    {[stream |-> <<"depth", "SOL_USDC">>,
      data |-> [s |-> "SOL_USDC", a |-> <<>>, b |-> << <<1867, q>> >>,
                U |-> 1, u |-> 1, T |-> T]] :
        q \in Quantities, T \in WideMicroTimes}

TimeMessages ==
    TimeDepthMessages
    \cup TickerMessages
    \cup {m \in TradeMessages : m.data.s = "SOL_USDC" /\ m.data.t <= 2}

TimeHashes == {<<"ticker", "SOL/USDC">>, OrderBookHash("SOL/USDC")}

NextTimes ==
    \/ \E message \in TimeMessages : Receive(message)
    \/ HandleMessageLogged
    \/ \E messageHash \in TimeHashes : watch(messageHash)

SpecTimes == InitRouter /\ [][NextTimes]_vars

\* milliseconds is microseconds converted down to whole milliseconds
WholeMillis(milliseconds, microseconds) ==
    /\ milliseconds * 1000 <= microseconds
    /\ microseconds < milliseconds * 1000 + 1000

\* C21: a depth message leaves the book with the timestamp T converted down to
\* whole milliseconds; T = 1694687965940999 gives 1694687965940
C21_BookTimestampInMillis ==
    [][DepthStep =>
          LET T == inbox[1].data.T
              timestamp == orderbooks'[DepthSymbol].timestamp
          IN  /\ WholeMillis(timestamp, T)
              /\ T = 940999 => timestamp = 940]_vars

C21_Witness ==
    /\ inbox = <<>>
    /\ handled # <<>>
    /\ handled[1].stream[1] = "depth"
    /\ handled[1].data.T = 940999
    /\ orderbooks["SOL/USDC"].timestamp = 940

TickerStep ==
    /\ inbox # <<>> /\ inbox' = <<>>
    /\ Len(inbox[1].stream) > 0 /\ inbox[1].stream[1] = "ticker"

\* C22: a ticker message leaves the ticker, and hands the waiter of its hash a
\* ticker, with the timestamp T converted down to whole milliseconds, and a
\* trade message appends a trade with that timestamp
C22_TickerAndTradeTimestampInMillis ==
    [][/\ TickerStep =>
             LET T == inbox[1].data.T
                 symbol == safeMarket(inbox[1].data.s).symbol
             IN  /\ WholeMillis(tickers'[symbol].timestamp, T)
                 /\ <<"ticker", symbol>> \in futures
                       => WholeMillis(resolved'[<<"ticker", symbol>>].timestamp, T)
       /\ TradeStep =>
             LET T == inbox[1].data.T
                 cache == trades'[safeMarket(inbox[1].data.s).symbol]
             IN  WholeMillis(cache[Len(cache)].timestamp, T)]_vars

----------------------------------------------------------------------------
(* Replay of zero-quantity deltas *)

\* every pair of the list has quantity zero and a price the side does not hold
AbsentZeros(bookside, deltas) ==
    \A i \in 1..Len(deltas) :
        deltas[i][2] = 0 /\ deltas[i][1] \notin DOMAIN bookside

\* C23: a depth message whose pairs all set an absent price to zero raises no
\* error and leaves the asks and the bids of the book as they were
C23_AbsentZeroIsNoOp ==
    [][(/\ DepthStep
        /\ Len(inbox[1].data.a) + Len(inbox[1].data.b) > 0
        /\ AbsentZeros(PreBook.asks, inbox[1].data.a)
        /\ AbsentZeros(PreBook.bids, inbox[1].data.b)) =>
          /\ thrown' = ""
          /\ orderbooks'[DepthSymbol].asks = PreBook.asks
          /\ orderbooks'[DepthSymbol].bids = PreBook.bids]_vars

\* the only pairs ever applied set absent prices to zero, and the book is empty
C23_Witness ==
    /\ inbox = <<>>
    /\ thrown = ""
    /\ "SOL/USDC" \in DOMAIN orderbooks
    /\ lastPair["SOL/USDC"].asks[1870] = 0
    /\ lastPair["SOL/USDC"].bids[1867] = 0
    /\ lastPair["SOL/USDC"].asks[1867] = NoValue
    /\ lastPair["SOL/USDC"].bids[1870] = NoValue
    /\ orderbooks["SOL/USDC"].asks = EmptyMap
    /\ orderbooks["SOL/USDC"].bids = EmptyMap

----------------------------------------------------------------------------
(* Calls of a client with or without credentials *)

CredentialRequests ==
    [api : Apis, method : {"GET", "POST"}, path : {<<"orders">>, <<"capital">>},
     params : {Object(<<>>)}, now : {1700000000}, recvWindow : {NoValue},
     credentials : BOOLEAN]

\* one call of sign: the request and what the call returned or raised
CallSign(r) ==
    /\ request' = <<r>>
    /\ response' = <<sign(r)>>
    /\ UNCHANGED <<inbox, orderbooks, orders, futures, resolved, thrown, lastPair,
                   stale, cacheVars, subscribeVars>>

\* the account subscriptions, and one public subscription beside them
CredentialCalls ==
    [method : {"watchOrders", "watchPositions"}, symbol : {""}, timeframe : {"1m"},
     params : {EmptyMap}, credentials : BOOLEAN, recvWindow : {NoValue}]
    \cup [method : {"watchOrders", "watchTicker"}, symbol : {"SOL/USDC"},
          timeframe : {"1m"}, params : {EmptyMap}, credentials : {TRUE},
          recvWindow : {NoValue}]

NextCredentials ==
    \/ \E r \in CredentialRequests : CallSign(r)
    \/ \E c \in CredentialCalls : Subscribe(c)
    \/ Send

SpecCredentials == Init /\ [][NextCredentials]_vars

----------------------------------------------------------------------------
(* parseOrder: a raw order of the REST API to a unified order *)

\* a field the raw order does not carry, and a number that could not be read
Undefined == <<>>

\* decimal strings as sequences of digits
TriggerPrices == {Undefined, <<9, 0>>, <<1, 1, 0>>}
LimitPrices == {Undefined, <<1, 1, 1>>}
OrderTypes == {"Limit", "Market", "StopMarket", "TakeProfitLimit"}
RawSides == {"Bid", "Ask"}
RawStatuses == {"New", "Filled", "Cancelled"}

RawOrders == [id : {"111063070525358080"}, symbol : {"SOL_USDC_PERP"},
              side : RawSides, orderType : OrderTypes, price : LimitPrices,
              triggerPrice : TriggerPrices, status : RawStatuses]

safeStringLower(value) ==
    CASE value = "Limit" -> "limit"
      [] value = "Market" -> "market"
      [] value = "StopMarket" -> "stopmarket"
      [] value = "TakeProfitLimit" -> "takeprofitlimit"

RECURSIVE parseNumber(_)
parseNumber(value) ==
    IF value = Undefined THEN NoValue
    ELSE IF Len(value) = 1 THEN value[1]
    ELSE parseNumber(SubSeq(value, 1, Len(value) - 1)) * 10 + value[Len(value)]

parseOrderStatus(status) ==
    CASE status = "New" -> "open"
      [] status = "PartiallyFilled" -> "open"
      [] status = "Filled" -> "closed"
      [] status = "Cancelled" -> "canceled"
      [] status = "PendingCancel" -> "canceling"
      [] status = "Rejected" -> "rejected"
      [] status = "Expired" -> "expired"
      [] OTHER -> status

\* safeOrder of the base class: the numbers are parsed, and the trigger price and
\* the stop price are the one the parsed order carries under either name
safeOrder(order) ==
    LET trigger == IF order.triggerPrice # Undefined
                   THEN order.triggerPrice ELSE order.stopPrice
    IN  [order EXCEPT !.price = parseNumber(@),
                      !.triggerPrice = parseNumber(trigger),
                      !.stopPrice = parseNumber(trigger)]

parseOrder(order) ==
    safeOrder([id |-> order.id,
               status |-> parseOrderStatus(order.status),
               symbol |-> safeMarket(order.symbol).symbol,
               type |-> safeStringLower(order.orderType),
               side |-> IF order.side = "Bid" THEN "buy" ELSE "sell",
               price |-> order.price,
               stopPrice |-> Undefined,
               triggerPrice |-> Undefined,
               info |-> order])

ParseOrder ==
    /\ request # <<>>
    /\ response = <<>>
    /\ response' = <<parseOrder(request[1])>>
    /\ UNCHANGED <<inbox, orderbooks, orders, futures, resolved, thrown, lastPair,
                   stale, request, cacheVars, subscribeVars>>

InitParseOrder ==
    /\ InitStream
    /\ options = DefaultOptions
    /\ request \in {<<o>> : o \in RawOrders}
    /\ response = <<>>

SpecParseOrder == InitParseOrder /\ [][ParseOrder]_vars

\* C25: the parsed order of a raw order with a trigger price has that price as its
\* stop price, the lower-cased order type as its type, and side sell for Ask
C25_StopPriceIsTriggerPrice ==
    response # <<>> =>
        /\ request[1].triggerPrice # Undefined =>
              response[1].stopPrice = parseNumber(request[1].triggerPrice)
        /\ response[1].type = safeStringLower(request[1].orderType)
        /\ request[1].side = "Ask" => response[1].side = "sell"

----------------------------------------------------------------------------
(* The depth stream with gaps, overlaps and repeats of the update ids *)

MaxNonce == 3         \* update ids run over 1..MaxNonce

ContinuityMessages ==
    {[stream |-> <<"depth", "SOL_USDC">>,
      data |-> [s |-> "SOL_USDC", a |-> <<<<1870, q>>>>, b |-> <<>>,
                U |-> ids[1], u |-> ids[2], T |-> 1999]] :
        q \in Quantities, ids \in {x \in (1..MaxNonce) \X (1..MaxNonce) : x[1] <= x[2]}}

\* handleMessage, with the frame and the book it found kept for the record
HandleMessageOnBook ==
    /\ Handle
    /\ handled' = <<inbox[1], PreBook>>
    /\ UNCHANGED lastPair

NextContinuity ==
    \/ \E message \in ContinuityMessages : Receive(message)
    \/ HandleMessageOnBook

SpecContinuity == Init /\ [][NextContinuity]_vars

\* C26: a depth message is merged whatever its first update id and the nonce of
\* the book are: no error, its pairs are on the book, and the nonce is its last
\* update id
C26_NoContinuityValidation ==
    [][DepthStep =>
          /\ thrown' = ""
          /\ Applied(orderbooks'[DepthSymbol].asks, inbox[1].data.a)
          /\ Applied(orderbooks'[DepthSymbol].bids, inbox[1].data.b)
          /\ orderbooks'[DepthSymbol].nonce = inbox[1].data.u]_vars

\* a gap: the book was at update id 1 and the message starts at 3
C26_Witness ==
    /\ handled # <<>>
    /\ handled[2].nonce = 1
    /\ handled[1].data.U = 3
    /\ handled[1].data.a = <<<<1870, 832>>>>
    /\ inbox = <<>>
    /\ orderbooks["SOL/USDC"].nonce = 3
    /\ orderbooks["SOL/USDC"].asks[1870] = 832

----------------------------------------------------------------------------
(* The head of the signed payload *)

\* C27: the payload of every signed request starts with 'instruction=<name>',
\* the name resolved for its verb and path, whatever the method and the shape of
\* the params
C27_PayloadStartsWithInstruction ==
    Signed(1) =>
        /\ Len(response[1].payload) >= 3
        /\ SubSeq(response[1].payload, 1, 3) =
              <<"instruction", "=",
                getInstructionType(request[1].path, request[1].method).instruction>>

----------------------------------------------------------------------------
(* What is signed against what is sent *)

StartsAt(sequence, i, part) ==
    /\ i + Len(part) - 1 <= Len(sequence)
    /\ SubSeq(sequence, i, i + Len(part) - 1) = part

\* the signed payload without its timestamp and window, and without the leading
\* instruction of a request whose params are an object
SignedQuery ==
    LET payload == response[1].payload
        head == SubSeq(payload, 1, Len(payload) - Len(Stamp(request[1])))
    IN  IF request[1].params.kind = "array" THEN head
        ELSE IF Len(head) > 4 THEN SubSeq(head, 5, Len(head)) ELSE <<>>

\* what follows the '?' of a url
UrlQuery(url) ==
    IF \E i \in 1..Len(url) : url[i] = "?"
    THEN SubSeq(url, (CHOOSE i \in 1..Len(url) : url[i] = "?") + 1, Len(url))
    ELSE <<>>

\* the pairs a query string encodes, as key=value or as index[key]=value
SignedPairs(queryString) ==
    {kv \in KeySet \X ParamValues :
        \E i \in 1..Len(queryString) :
            LET flat == <<kv[1], "=">> \o encodeURIComponent(kv[2])
                nested == <<"%5B", kv[1], "%5D", "=">> \o encodeURIComponent(kv[2])
                ends(j) == j > Len(queryString) \/ queryString[j] = "&"
            IN  \/ /\ StartsAt(queryString, i, flat)
                   /\ i = 1 \/ queryString[i - 1] = "&"
                   /\ ends(i + Len(flat))
                \/ /\ StartsAt(queryString, i, nested)
                   /\ ends(i + Len(nested))}

\* the pairs a JSON body carries
SentPairs(body) ==
    {kv \in KeySet \X ParamValues :
        \E i \in 2..Len(body) :
            LET member == <<"\"", kv[1], "\"", ":", "\"">> \o kv[2] \o <<"\"">>
            IN  /\ StartsAt(body, i, member)
                /\ body[i - 1] \in {"{", ","}
                /\ i + Len(member) <= Len(body)
                /\ body[i + Len(member)] \in {",", "}"}}

\* the pairs of the params that the path does not consume
RequestPairs(r) ==
    {kv \in KeySet \X ParamValues :
        /\ kv[1] \notin extractParams(r.path) \/ r.params.kind = "array"
        /\ \/ \E i \in 1..Len(r.params.value) : r.params.value[i] = kv
           \/ \E n \in 1..Len(r.params.items) :
                 \E i \in 1..Len(r.params.items[n]) : r.params.items[n][i] = kv}

\* C28: the query string of the url of a signed GET is the signed query string,
\* the JSON body of any other signed request carries exactly the pairs that were
\* signed, and these are the pairs of the params that the path did not consume
C28_SignedIsSent ==
    Signed(1) =>
        LET r == request[1]
            signed == response[1]
        IN  /\ r.method = "GET" =>
                  /\ UrlQuery(signed.url) = SignedQuery
                  /\ signed.body = <<>>
            /\ r.method # "GET" =>
                  /\ UrlQuery(signed.url) = <<>>
                  /\ SentPairs(signed.body) = SignedPairs(SignedQuery)
            /\ SignedPairs(SignedQuery) = RequestPairs(r)

C28_Witness ==
    /\ Signed(1)
    /\ request[1].method = "POST"
    /\ request[1].params.kind = "object"
    /\ Len(request[1].params.value) = 2
    /\ request[1].params.value[1][1] = "symbol"
    /\ request[1].params.value[1][2] = <<"a", "&", "b", "=", "c">>
    /\ response[1].body # <<>>
    /\ Cardinality(SentPairs(response[1].body)) = 2

----------------------------------------------------------------------------
(* The streams of two markets side by side *)

IsolationMessages ==
    {[stream |-> <<"depth", s>>,
      data |-> [s |-> s, a |-> <<>>, b |-> <<<<1867, q>>>>, U |-> 1, u |-> 1,
                T |-> 1999]] : s \in Markets, q \in {832, 1500}}
    \cup {m \in TickerMessages \cup
                {[stream |-> <<"ticker", "BTC_USDC">>,
                  data |-> [s |-> "BTC_USDC", c |-> 1870, T |-> 940999]]} :
             m.data.c = 1870 \/ m.data.s = "SOL_USDC"}
    \cup {m \in TradeMessages : m.data.t = 1}
    \cup {m \in KlineMessages : m.data.t = 1234}

IsolationHashes == {OrderBookHash("SOL/USDC"), OrderBookHash("BTC/USDC"),
                    <<"ohlcv", "SOL/USDC", "1h">>}

NextIsolation ==
    \/ \E message \in IsolationMessages : Receive(message)
    \/ HandleMessage
    \/ \E messageHash \in IsolationHashes : watch(messageHash)

SpecIsolation == InitRouter /\ [][NextIsolation]_vars

\* every entry of the map but the one of key is as it was
OthersKept(after, before, key) ==
    \A k \in (DOMAIN after) \cup (DOMAIN before) :
        k # key => (k \in DOMAIN before /\ k \in DOMAIN after /\ after[k] = before[k])

\* the hash the handler of a frame resolves
HashOf(message) ==
    LET symbol == safeMarket(message.data.s).symbol
    IN  CASE message.stream[1] = "depth" -> OrderBookHash(symbol)
          [] message.stream[1] = "kline" -> <<"ohlcv", symbol, message.stream[2]>>
          [] OTHER -> <<message.stream[1], symbol>>

\* C29: a depth, ticker, trade or kline frame of symbol A changes only A's book,
\* A's ticker, A's trades or A's candles of that interval, and releases only the
\* waiters of its own hash
C29_IsolatedPerSymbolAndChannel ==
    [][(inbox # <<>> /\ inbox' = <<>>
          /\ inbox[1].stream[1] \in {"depth", "ticker", "trades", "kline"}) =>
          LET message == inbox[1]
              channel == message.stream[1]
              symbol == safeMarket(message.data.s).symbol
          IN  /\ IF channel = "depth" THEN OthersKept(orderbooks', orderbooks, symbol)
                 ELSE orderbooks' = orderbooks
              /\ IF channel = "ticker" THEN OthersKept(tickers', tickers, symbol)
                 ELSE tickers' = tickers
              /\ IF channel = "trades" THEN OthersKept(trades', trades, symbol)
                 ELSE trades' = trades
              /\ IF channel = "kline"
                 THEN /\ OthersKept(ohlcvs', ohlcvs, symbol)
                      /\ OthersKept(ohlcvs'[symbol],
                                    IF symbol \in DOMAIN ohlcvs THEN ohlcvs[symbol]
                                    ELSE EmptyMap,
                                    message.stream[2])
                 ELSE ohlcvs' = ohlcvs
              /\ UNCHANGED <<orders, positions>>
              /\ futures' \subseteq futures
              /\ futures \ futures' \subseteq {HashOf(message)}
              /\ DOMAIN resolved' \subseteq {HashOf(message)}]_vars

\* a BTC depth frame released its waiter beside SOL's book, candles and waiter
C29_Witness ==
    /\ inbox = <<>>
    /\ DOMAIN resolved = {OrderBookHash("BTC/USDC")}
    /\ OrderBookHash("SOL/USDC") \in futures
    /\ DOMAIN orderbooks = {"SOL/USDC", "BTC/USDC"}
    /\ orderbooks["SOL/USDC"].bids[1867] = 832
    /\ orderbooks["BTC/USDC"].bids[1867] = 1500
    /\ "SOL/USDC" \in DOMAIN ohlcvs
    /\ DOMAIN ohlcvs["SOL/USDC"] = {"1m", "1h"}
    /\ "BTC/USDC" \in DOMAIN tickers

----------------------------------------------------------------------------
(* Watch calls and the frames that release them *)

CorrelateCalls ==
    [method : {"watchTicker", "watchTrades", "watchOrderBook", "watchOrders"},
     symbol : {"SOL/USDC"}, timeframe : {"1m"}, params : {EmptyMap},
     credentials : {TRUE}, recvWindow : {NoValue}]
    \cup [method : {"watchOHLCV"}, symbol : {"SOL/USDC"}, timeframe : Timeframes,
          params : {EmptyMap}, credentials : {TRUE}, recvWindow : {NoValue}]
    \cup [method : {"watchOrders", "watchPositions"}, symbol : {""},
          timeframe : {"1m"}, params : {EmptyMap}, credentials : {TRUE},
          recvWindow : {NoValue}]

\* one frame of each stream a call of CorrelateCalls subscribes to
CorrelateMessages ==
    {m \in TickerMessages : m.data.c = 1867}
    \cup {m \in TradeMessages : m.data.s = "SOL_USDC" /\ m.data.t = 1}
    \cup {m \in PlainDepthMessages : Len(m.data.a) = 0 /\ Len(m.data.b) = 1
                                     /\ m.data.b[1] = <<1867, 832>>}
    \cup {m \in KlineMessages : m.data.s = "SOL_USDC" /\ m.data.t = 1234}
    \cup {m \in OrderMessages : m.data.i = 1 /\ m.data.X = "New"}
    \cup {m \in PositionMessages : m.data.i = 1 /\ m.data.q = 5}

\* a watch method runs up to its await of this.watch and waits on its hash
WatchCall(c) ==
    /\ Call(c, clock).thrown = ""
    /\ watch(Call(c, clock).messageHash)

NextCorrelate ==
    \/ \E c \in CorrelateCalls : WatchCall(c)
    \/ \E message \in CorrelateMessages : Receive(message)
    \/ HandleMessage

SpecCorrelate == InitRouter /\ [][NextCorrelate]_vars

\* C30: handling a frame of the stream a pending watch call subscribed to
\* releases the waiters of that call's message hash
C30_WaiterReleasedByItsStream ==
    [][(inbox # <<>> /\ inbox' = <<>>) =>
          \A c \in CorrelateCalls :
              LET called == Call(c, clock)
              IN  (/\ called.messageHash \in futures
                   /\ called.request.params[1] = inbox[1].stream) =>
                      /\ called.messageHash \notin futures'
                      /\ called.messageHash \in DOMAIN resolved']_vars

====
